---- MODULE Spec2Model ----
(***************************************************************************)
(* Outbound message packaging of the mail client:                          *)
(* src/src/app/helpers/send/sendSubPackages.ts (attachSubPackages, the     *)
(* per-recipient package builders and bindPackageSet).                     *)
(*                                                                         *)
(* JavaScript runs one task at a time: the body of attachSubPackages up to *)
(* its await (the emails.map loop) is one step; afterwards every           *)
(* continuation (the settlement of an awaited crypto or network operation, *)
(* the part of bindPackageSet after its await, the continuation of         *)
(* attachSubPackages after Promise.all) is one step, and the steps of      *)
(* different recipients interleave in any order.                           *)
(***************************************************************************)
EXTENDS Integers, Sequences, FiniteSets, TLC

\* ------------------------------------------------------------------ bounds
MaxRecipients == 2
MaxAttachments == 2

\* --------------------------------------------------------------- constants
\* PACKAGE_TYPE of proton-shared, destructured at sendSubPackages.ts:13
SEND_PM == 1
SEND_EO == 2
SEND_CLEAR == 4
SEND_PGP_INLINE == 8
SEND_PGP_MIME == 16
\* sendSubPackages.ts:15
SEND_MIME == 32

\* MIME_TYPES of proton-shared, destructured at sendSubPackages.ts:12
DEFAULT == "text/html"
PLAINTEXT == "text/plain"
MIME == "multipart/mixed"

MIME_TYPES == {DEFAULT, PLAINTEXT, MIME}
PACKAGE_TYPE == {SEND_PM, SEND_EO, SEND_CLEAR, SEND_PGP_INLINE, SEND_PGP_MIME}

\* ------------------------------------------------------------------ inputs
Emails == 1..MaxRecipients

\* SendPreferences, as far as attachSubPackages reads it (line 126)
SendPreferences ==
    [encrypt : BOOLEAN, sign : BOOLEAN, pgpScheme : PACKAGE_TYPE,
     mimeType : {DEFAULT, PLAINTEXT}, publicKeys : {<<>>, <<"key">>}]

\* The resolver hands over a key exactly when it asks for encryption
ResolvedPreferences ==
    {p \in SendPreferences : p.encrypt <=> p.publicKeys # <<>>}

\* One set of preferences for each row of the dispatch switch and each branch
\* of the builder it calls; the recipients after the first draw theirs here.
RowPreferences ==
    {p \in ResolvedPreferences :
        /\ p.pgpScheme = SEND_PM => p.encrypt /\ p.sign
        /\ p.pgpScheme = SEND_PGP_MIME => p.mimeType = PLAINTEXT /\ (p.encrypt => p.sign)
        /\ p.pgpScheme = SEND_PGP_INLINE => p.mimeType = DEFAULT /\ p.sign
        /\ p.pgpScheme = SEND_EO => ~p.encrypt /\ ~p.sign /\ p.mimeType = DEFAULT
        /\ p.pgpScheme = SEND_CLEAR => ~p.encrypt /\ ~p.sign /\ p.mimeType = PLAINTEXT}

\* message.Attachments, each attachment by whether it has a Signature: no
\* attachment, and two of which one is unsigned
AttachmentLists == {<<>>, <<TRUE, FALSE>>}

\* mapSendPrefs[email] of an email without entry
Undefined ==
    [encrypt |-> FALSE, sign |-> FALSE, pgpScheme |-> 0,
     mimeType |-> "undefined", publicKeys |-> <<>>]

VARIABLES
    emails,        \* the recipient list (distinct emails)
    mapSendPrefs,  \* email -> SendPreferences, a key missing when unresolved
    message,       \* [isEO, Attachments, Password, PasswordHint]
    packages,      \* MIME type -> top-level package
    tasks,         \* per recipient: its bindPackageSet call and builder
    status         \* attachSubPackages itself

\* The conversation cache of ConversationProvider and its listener
VARIABLES
    cache,         \* conversation ID -> ConversationResult, the cached IDs only
    reloads,       \* conversation ID -> reloadConversation calls awaiting the api
    deletedIDs,    \* history: the IDs a DELETE event removed from the cache
    mismatches     \* history: the length mismatches of the last event, each
                   \* with the cached value before and after the event

cacheVars == <<cache, reloads, deletedIDs, mismatches>>

vars == <<emails, mapSendPrefs, message, packages, tasks, status,
          cache, reloads, deletedIDs, mismatches>>

\* ------------------------------------------------------- JavaScript values
\* A boolean kept as a boolean (sendPM, sendPGPInline with encrypt)
JsBool(b) == IF b THEN "true" ELSE "false"
\* Unary plus on a boolean: +true = 1, +false = 0
JsPlus(b) == IF b THEN "1" ELSE "0"

\* (publicKeys?.length && publicKeys[0]) || undefined
FirstPublicKey(publicKeys) ==
    IF Len(publicKeys) > 0 THEN publicKeys[1] ELSE "undefined"

\* Faulty variant of EverySignature: some() instead of every()
SomeSignature(msg) ==
    \E k \in 1..Len(msg.Attachments) : msg.Attachments[k]

\* getAttachments(message).every(({ Signature }) => Signature)
EverySignature(msg) ==
    \A k \in 1..Len(msg.Attachments) : msg.Attachments[k]

\* a | b on non-negative integers
RECURSIVE BitOr(_, _)
BitOr(a, b) ==
    IF a = 0 THEN b
    ELSE IF b = 0 THEN a
    ELSE (IF a % 2 = 1 \/ b % 2 = 1 THEN 1 ELSE 0) + 2 * BitOr(a \div 2, b \div 2)

\* a & b on non-negative integers
RECURSIVE BitAnd(_, _)
BitAnd(a, b) ==
    IF a = 0 \/ b = 0 THEN 0
    ELSE (IF a % 2 = 1 /\ b % 2 = 1 THEN 1 ELSE 0) + 2 * BitAnd(a \div 2, b \div 2)

\* ---------------------------------------------------------------- builders
\* The fields a sub-package can carry; "undefined" / <<>> where a builder
\* does not set the field.
NoPack ==
    [Type |-> 0, PublicKey |-> "undefined", Signature |-> "undefined",
     Auth |-> <<>>, PasswordHint |-> "undefined", Token |-> <<>>, EncToken |-> <<>>]

\* Faulty variant of sendPM: the flag of the clear builder
sendPMClearType(publicKeys, msg) ==
    [NoPack EXCEPT !.Type = SEND_CLEAR,
                   !.PublicKey = FirstPublicKey(publicKeys),
                   !.Signature = JsBool(EverySignature(msg))]

sendPM(publicKeys, msg) ==
    [NoPack EXCEPT !.Type = SEND_PM,
                   !.PublicKey = FirstPublicKey(publicKeys),
                   !.Signature = JsBool(EverySignature(msg))]

\* Token = encodeBase64(arrayToBinaryString(sessionKey))
EncodeToken(sessionKey) == <<"base64", sessionKey>>

\* encryptMessage({ data: Token, publicKeys: [], passwords: [message.Password] })
EncryptToken(token, password) == <<"encrypted", token, password>>

\* srpGetVerify({ api, credentials: { password } })
SrpAuth(password) == <<"verifier", password>>

\* The value sendPMEncryptedOutside returns once both awaits have succeeded
sendPMEncryptedOutside(msg, sessionKey) ==
    [NoPack EXCEPT !.Auth = SrpAuth(msg.Password),
                   !.Type = SEND_EO,
                   !.PasswordHint = msg.PasswordHint,
                   !.Token = EncodeToken(sessionKey),
                   !.EncToken = EncryptToken(EncodeToken(sessionKey), msg.Password),
                   !.Signature = JsPlus(EverySignature(msg))]

\* Faulty variant of sendPGPMime: the sign-only package carries SEND_PGP_MIME
sendPGPMimeOneFlag(prefs) ==
    IF prefs.encrypt
    THEN [NoPack EXCEPT !.Type = SEND_PGP_MIME,
                        !.PublicKey = FirstPublicKey(prefs.publicKeys)]
    ELSE [NoPack EXCEPT !.Type = SEND_PGP_MIME,
                        !.Signature = JsPlus(prefs.sign)]

sendPGPMime(prefs) ==
    IF prefs.encrypt
    THEN [NoPack EXCEPT !.Type = SEND_PGP_MIME,
                        !.PublicKey = FirstPublicKey(prefs.publicKeys)]
    ELSE [NoPack EXCEPT !.Type = SEND_MIME,
                        !.Signature = JsPlus(prefs.sign)]

\* Faulty variant of sendPGPInline: the test of encrypt is inverted
sendPGPInlineInverted(prefs, msg) ==
    IF ~prefs.encrypt
    THEN [NoPack EXCEPT !.Type = SEND_PGP_INLINE,
                        !.PublicKey = FirstPublicKey(prefs.publicKeys),
                        !.Signature = JsBool(EverySignature(msg))]
    ELSE [NoPack EXCEPT !.Type = SEND_CLEAR,
                        !.Signature = JsPlus(prefs.sign)]

sendPGPInline(prefs, msg) ==
    IF prefs.encrypt
    THEN [NoPack EXCEPT !.Type = SEND_PGP_INLINE,
                        !.PublicKey = FirstPublicKey(prefs.publicKeys),
                        !.Signature = JsBool(EverySignature(msg))]
    ELSE [NoPack EXCEPT !.Type = SEND_CLEAR,
                        !.Signature = JsPlus(prefs.sign)]

sendClear == [NoPack EXCEPT !.Type = SEND_CLEAR, !.Signature = "0"]

\* ---------------------------------------------------------------- dispatch
\* const packageType = mimeType === 'text/html' ? DEFAULT : PLAINTEXT
PackageTypeOf(mimeType) == IF mimeType = "text/html" THEN DEFAULT ELSE PLAINTEXT

\* Faulty variant of Route: every row binds to packageType
RouteByMimeType(prefs, msg) ==
    CASE prefs.pgpScheme = SEND_PM ->
            [builder |-> "sendPM", type |-> PackageTypeOf(prefs.mimeType)]
      [] prefs.pgpScheme = SEND_PGP_MIME ->
            IF ~prefs.sign /\ ~prefs.encrypt
            THEN [builder |-> "sendClear", type |-> PackageTypeOf(prefs.mimeType)]
            ELSE [builder |-> "sendPGPMime", type |-> MIME]
      [] prefs.pgpScheme = SEND_PGP_INLINE ->
            [builder |-> "sendPGPInline", type |-> PackageTypeOf(prefs.mimeType)]
      [] prefs.pgpScheme \in {SEND_EO, SEND_CLEAR} ->
            IF msg.isEO
            THEN [builder |-> "sendPMEncryptedOutside", type |-> PackageTypeOf(prefs.mimeType)]
            ELSE [builder |-> "sendClear", type |-> PackageTypeOf(prefs.mimeType)]
      [] OTHER ->
            [builder |-> "none", type |-> PackageTypeOf(prefs.mimeType)]

\* Faulty variant of Route: the sign-only PGP/MIME package goes to text/html
RouteSignOnlyToDefault(prefs, msg) ==
    CASE prefs.pgpScheme = SEND_PM ->
            [builder |-> "sendPM", type |-> PackageTypeOf(prefs.mimeType)]
      [] prefs.pgpScheme = SEND_PGP_MIME ->
            IF ~prefs.sign /\ ~prefs.encrypt
            THEN [builder |-> "sendClear", type |-> DEFAULT]
            ELSE [builder |-> "sendPGPMime",
                  type |-> IF prefs.encrypt THEN MIME ELSE DEFAULT]
      [] prefs.pgpScheme = SEND_PGP_INLINE ->
            [builder |-> "sendPGPInline", type |-> PLAINTEXT]
      [] prefs.pgpScheme \in {SEND_EO, SEND_CLEAR} ->
            IF msg.isEO
            THEN [builder |-> "sendPMEncryptedOutside", type |-> PackageTypeOf(prefs.mimeType)]
            ELSE [builder |-> "sendClear", type |-> PackageTypeOf(prefs.mimeType)]
      [] OTHER ->
            [builder |-> "none", type |-> PackageTypeOf(prefs.mimeType)]

\* Faulty variant of Route: case SEND_CLEAR does not share the branch of
\* case SEND_EO and always calls sendClear
RouteClearNeverOutside(prefs, msg) ==
    CASE prefs.pgpScheme = SEND_PM ->
            [builder |-> "sendPM", type |-> PackageTypeOf(prefs.mimeType)]
      [] prefs.pgpScheme = SEND_PGP_MIME ->
            IF ~prefs.sign /\ ~prefs.encrypt
            THEN [builder |-> "sendClear", type |-> DEFAULT]
            ELSE [builder |-> "sendPGPMime", type |-> MIME]
      [] prefs.pgpScheme = SEND_PGP_INLINE ->
            [builder |-> "sendPGPInline", type |-> PLAINTEXT]
      [] prefs.pgpScheme = SEND_EO ->
            IF msg.isEO
            THEN [builder |-> "sendPMEncryptedOutside", type |-> PackageTypeOf(prefs.mimeType)]
            ELSE [builder |-> "sendClear", type |-> PackageTypeOf(prefs.mimeType)]
      [] prefs.pgpScheme = SEND_CLEAR ->
            [builder |-> "sendClear", type |-> PackageTypeOf(prefs.mimeType)]
      [] OTHER ->
            [builder |-> "none", type |-> PackageTypeOf(prefs.mimeType)]

\* The switch of attachSubPackages: the builder called and the package bound to
Route(prefs, msg) ==
    CASE prefs.pgpScheme = SEND_PM ->
            [builder |-> "sendPM", type |-> PackageTypeOf(prefs.mimeType)]
      [] prefs.pgpScheme = SEND_PGP_MIME ->
            IF ~prefs.sign /\ ~prefs.encrypt
            THEN [builder |-> "sendClear", type |-> DEFAULT]
            ELSE [builder |-> "sendPGPMime", type |-> MIME]
      [] prefs.pgpScheme = SEND_PGP_INLINE ->
            [builder |-> "sendPGPInline", type |-> PLAINTEXT]
      [] prefs.pgpScheme \in {SEND_EO, SEND_CLEAR} ->
            IF msg.isEO
            THEN [builder |-> "sendPMEncryptedOutside", type |-> PackageTypeOf(prefs.mimeType)]
            ELSE [builder |-> "sendClear", type |-> PackageTypeOf(prefs.mimeType)]
      [] OTHER ->
            \* no case matches: the callback returns undefined
            [builder |-> "none", type |-> PackageTypeOf(prefs.mimeType)]

\* The package a builder without await resolves to, at the call itself
Built(builder, prefs, msg) ==
    CASE builder = "sendPM" -> sendPM(prefs.publicKeys, msg)
      [] builder = "sendPGPMime" -> sendPGPMime(prefs)
      [] builder = "sendPGPInline" -> sendPGPInline(prefs, msg)
      [] builder = "sendClear" -> sendClear

\* A recipient's task before emails.map reaches it
IdleTask ==
    [pc |-> "idle", type |-> DEFAULT, pack |-> NoPack,
     key |-> "none", enc |-> "none", srp |-> "none"]

\* One callback of emails.map: the builder is called and runs up to its first
\* await, bindPackageSet is called and suspends at `await promise`.
Dispatched(prefs, msg) ==
    LET r == Route(prefs, msg) IN
    IF r.builder = "sendPMEncryptedOutside"
    THEN [IdleTask EXCEPT !.pc = "genkey", !.type = r.type, !.key = "pending"]
    ELSE IF r.builder = "none"
    THEN [IdleTask EXCEPT !.pc = "skipped", !.type = r.type]
    ELSE [IdleTask EXCEPT !.pc = "built", !.type = r.type,
                          !.pack = Built(r.builder, prefs, msg)]

\* mapSendPrefs[email]
Lookup(prefsMap, email) ==
    IF email \in DOMAIN prefsMap THEN prefsMap[email] ELSE Undefined

\* Faulty variant of FirstUnresolved: a missing entry does not throw
FirstUnresolvedNone(list, prefsMap) == Len(list) + 1

\* The first position of the list whose email has no preferences: there the
\* destructuring of line 126 throws. Len + 1 when there is none.
FirstUnresolved(list, prefsMap) ==
    LET bad == {k \in 1..Len(list) : Lookup(prefsMap, list[k]) = Undefined} IN
    IF bad = {} THEN Len(list) + 1
    ELSE CHOOSE k \in bad : \A j \in bad : k <= j

\* -------------------------------------------------------------- aggregator
\* Faulty variant of BoundPackage: Type = pack.Type instead of Type |= pack.Type
BoundPackageAssignType(packageToUpdate, pack, email) ==
    LET addresses == IF packageToUpdate.hasAddresses
                     THEN packageToUpdate.Addresses ELSE <<>>
    IN [packageToUpdate EXCEPT
           !.hasAddresses = TRUE,
           !.hasType = TRUE,
           !.Addresses = [e \in DOMAIN addresses \cup {email} |->
                             IF e = email THEN pack ELSE addresses[e]],
           !.Type = pack.Type]

\* Faulty variant of BoundPackage: Addresses = {} on every call
BoundPackageResetAddresses(packageToUpdate, pack, email) ==
    LET type == IF ~packageToUpdate.hasType \/ packageToUpdate.Type = 0
                THEN 0 ELSE packageToUpdate.Type
    IN [packageToUpdate EXCEPT
           !.hasAddresses = TRUE,
           !.hasType = TRUE,
           !.Addresses = [e \in {email} |-> pack],
           !.Type = BitOr(type, pack.Type)]

\* Faulty variant of BoundPackage: Type ^= pack.Type instead of Type |= pack.Type
BoundPackageXorType(packageToUpdate, pack, email) ==
    LET addresses == IF packageToUpdate.hasAddresses
                     THEN packageToUpdate.Addresses ELSE <<>>
        type == IF ~packageToUpdate.hasType \/ packageToUpdate.Type = 0
                THEN 0 ELSE packageToUpdate.Type
    IN [packageToUpdate EXCEPT
           !.hasAddresses = TRUE,
           !.hasType = TRUE,
           !.Addresses = [e \in DOMAIN addresses \cup {email} |->
                             IF e = email THEN pack ELSE addresses[e]],
           !.Type = BitOr(type, pack.Type) - BitAnd(type, pack.Type)]

\* Faulty variant of BoundPackage: `Type += pack.Type || 0`
BoundPackageAddType(packageToUpdate, pack, email) ==
    LET addresses == IF packageToUpdate.hasAddresses
                     THEN packageToUpdate.Addresses ELSE <<>>
        type == IF ~packageToUpdate.hasType \/ packageToUpdate.Type = 0
                THEN 0 ELSE packageToUpdate.Type
    IN [packageToUpdate EXCEPT
           !.hasAddresses = TRUE,
           !.hasType = TRUE,
           !.Addresses = [e \in DOMAIN addresses \cup {email} |->
                             IF e = email THEN pack ELSE addresses[e]],
           !.Type = type + pack.Type]

\* The part of bindPackageSet after `await promise`, on an existing package
BoundPackage(packageToUpdate, pack, email) ==
    LET addresses == IF packageToUpdate.hasAddresses
                     THEN packageToUpdate.Addresses ELSE <<>>
        type == IF ~packageToUpdate.hasType \/ packageToUpdate.Type = 0
                THEN 0 ELSE packageToUpdate.Type
    IN [packageToUpdate EXCEPT
           !.hasAddresses = TRUE,
           !.hasType = TRUE,
           !.Addresses = [e \in DOMAIN addresses \cup {email} |->
                             IF e = email THEN pack ELSE addresses[e]],
           !.Type = BitOr(type, pack.Type)]

\* A top-level package as the caller hands it over
NewPackage(initialised) ==
    [present |-> TRUE, hasAddresses |-> initialised, hasType |-> initialised,
     Addresses |-> <<>>, Type |-> 0]

\* No package under that MIME type
AbsentPackage ==
    [present |-> FALSE, hasAddresses |-> FALSE, hasType |-> FALSE,
     Addresses |-> <<>>, Type |-> 0]

\* ------------------------------------------------------------------- state
RecipientLists == {[k \in 1..n |-> k] : n \in 0..MaxRecipients}

Messages ==
    [isEO : BOOLEAN, Attachments : AttachmentLists,
     Password : {"password"}, PasswordHint : {"hint"}]

TypeOK ==
    /\ emails \in RecipientLists
    /\ status \in {"init", "waiting", "returned", "failed"}
    /\ \A i \in Emails :
          tasks[i].pc \in {"idle", "skipped", "genkey", "crypto", "built", "bound", "failed"}

\* The resolved preferences of the emails of D
PreferenceMaps(D, firstSet, otherSet) ==
    {[e \in D |-> IF e = 1 THEN p ELSE m[e]] :
        p \in firstSet, m \in [D \ {1} -> otherSet]}

InitWith(firstSet, otherSet, messageSet, packageSet) ==
    /\ emails \in RecipientLists
    /\ \E D \in SUBSET {emails[k] : k \in 1..Len(emails)} :
          mapSendPrefs \in PreferenceMaps(D, firstSet, otherSet)
    /\ message \in messageSet
    /\ packages \in packageSet
    /\ tasks = [i \in Emails |-> IdleTask]
    /\ status = "init"
    /\ cache = <<>>
    /\ reloads = <<>>
    /\ deletedIDs = {}
    /\ mismatches = {}

\* --------------------------------------------------------------- operations
\* attachSubPackages up to `await Promise.all(promises)`: emails.map calls the
\* callback for each email in turn; a missing preference throws out of the map.
Dispatch ==
    /\ status = "init"
    /\ LET stop == FirstUnresolved(emails, mapSendPrefs) IN
       /\ tasks' = [i \in Emails |->
                      IF \E k \in 1..(stop - 1) : emails[k] = i
                      THEN Dispatched(Lookup(mapSendPrefs, i), message)
                      ELSE tasks[i]]
       /\ status' = IF stop <= Len(emails) THEN "failed" ELSE "waiting"
    /\ UNCHANGED <<emails, mapSendPrefs, message, packages>>
    /\ UNCHANGED cacheVars

\* Faulty variant of KeyGenerated: srpGetVerify is called only after
\* `await encryptMessage(...)`
KeyGeneratedSequential(i) ==
    /\ tasks[i].pc = "genkey"
    /\ tasks' = [tasks EXCEPT ![i].pc = "crypto", ![i].key = "ok",
                               ![i].enc = "pending"]
    /\ UNCHANGED <<emails, mapSendPrefs, message, packages, status>>
    /\ UNCHANGED cacheVars

\* generateSessionKey resolves: encryptMessage and srpGetVerify are called
KeyGenerated(i) ==
    /\ tasks[i].pc = "genkey"
    /\ tasks' = [tasks EXCEPT ![i].pc = "crypto", ![i].key = "ok",
                               ![i].enc = "pending", ![i].srp = "pending"]
    /\ UNCHANGED <<emails, mapSendPrefs, message, packages, status>>
    /\ UNCHANGED cacheVars

\* generateSessionKey rejects: the catch rethrows, bindPackageSet rejects
KeyGenerationFails(i) ==
    /\ tasks[i].pc = "genkey"
    /\ tasks' = [tasks EXCEPT ![i].pc = "failed", ![i].key = "failed"]
    /\ UNCHANGED <<emails, mapSendPrefs, message, packages, status>>
    /\ UNCHANGED cacheVars

\* Faulty variant of AfterSettle: a failure falls back to the clear package
AfterSettleDowngrade(t, i) ==
    IF t.pc # "crypto" THEN t
    ELSE IF t.enc = "failed" \/ t.srp = "failed"
         THEN [t EXCEPT !.pc = "built", !.pack = sendClear]
    ELSE IF t.enc = "ok" /\ t.srp = "ok"
         THEN [t EXCEPT !.pc = "built", !.pack = sendPMEncryptedOutside(message, i)]
    ELSE t

\* The task after one of the two operations of the inner Promise.all settled.
\* Once that Promise.all has rejected, the builder has thrown: the settlement
\* of the other operation reaches no code and is no step.
AfterSettle(t, i) ==
    IF t.pc # "crypto" THEN t
    ELSE IF t.enc = "failed" \/ t.srp = "failed" THEN [t EXCEPT !.pc = "failed"]
    ELSE IF t.enc = "ok" /\ t.srp = "ok"
         THEN [t EXCEPT !.pc = "built", !.pack = sendPMEncryptedOutside(message, i)]
    ELSE t

\* Faulty variant of EncryptSettles: the builder sets its flag in the mask of
\* the top-level package itself
EncryptSettlesSetsMask(i, outcome) ==
    /\ tasks[i].pc = "crypto"
    /\ tasks[i].enc = "pending"
    /\ tasks' = [tasks EXCEPT ![i] = AfterSettle([tasks[i] EXCEPT !.enc = outcome], i)]
    /\ packages' = [packages EXCEPT ![tasks[i].type].Type = BitOr(@, SEND_EO)]
    /\ UNCHANGED <<emails, mapSendPrefs, message, status>>
    /\ UNCHANGED cacheVars

EncryptSettles(i, outcome) ==
    /\ tasks[i].pc = "crypto"
    /\ tasks[i].enc = "pending"
    /\ tasks' = [tasks EXCEPT ![i] = AfterSettle([tasks[i] EXCEPT !.enc = outcome], i)]
    /\ UNCHANGED <<emails, mapSendPrefs, message, packages, status>>
    /\ UNCHANGED cacheVars

SrpSettles(i, outcome) ==
    /\ tasks[i].pc = "crypto"
    /\ tasks[i].srp = "pending"
    /\ tasks' = [tasks EXCEPT ![i] = AfterSettle([tasks[i] EXCEPT !.srp = outcome], i)]
    /\ UNCHANGED <<emails, mapSendPrefs, message, packages, status>>
    /\ UNCHANGED cacheVars

\* Faulty variant of Bind: the PGP/MIME branch without sign and encrypt falls
\* through and binds into the MIME package as well
BindFallThrough(i) ==
    /\ tasks[i].pc = "built"
    /\ LET once == [packages EXCEPT ![tasks[i].type] =
                       BoundPackage(@, tasks[i].pack, i)]
       IN packages' =
            IF mapSendPrefs[i].pgpScheme = SEND_PGP_MIME
            THEN [once EXCEPT ![MIME] = BoundPackage(@, tasks[i].pack, i)]
            ELSE once
    /\ tasks' = [tasks EXCEPT ![i].pc = "bound"]
    /\ UNCHANGED <<emails, mapSendPrefs, message, status>>
    /\ UNCHANGED cacheVars

\* Faulty variant of Bind: the package is read before `await promise` and
\* written back after it, so the binds that ran in between are lost
BindLostUpdate(i) ==
    /\ tasks[i].pc = "built"
    /\ IF packages[tasks[i].type].present
       THEN /\ packages' = [packages EXCEPT ![tasks[i].type] =
                               BoundPackage(NewPackage(FALSE), tasks[i].pack, i)]
            /\ tasks' = [tasks EXCEPT ![i].pc = "bound"]
       ELSE /\ tasks' = [tasks EXCEPT ![i].pc = "failed"]
            /\ UNCHANGED packages
    /\ UNCHANGED <<emails, mapSendPrefs, message, status>>
    /\ UNCHANGED cacheVars

\* bindPackageSet after `await promise`
Bind(i) ==
    /\ tasks[i].pc = "built"
    /\ IF packages[tasks[i].type].present
       THEN /\ packages' = [packages EXCEPT ![tasks[i].type] =
                               BoundPackage(@, tasks[i].pack, i)]
            /\ tasks' = [tasks EXCEPT ![i].pc = "bound"]
       ELSE /\ tasks' = [tasks EXCEPT ![i].pc = "failed"]
            /\ UNCHANGED packages
    /\ UNCHANGED <<emails, mapSendPrefs, message, status>>
    /\ UNCHANGED cacheVars

\* Faulty variant of Return: resumes at the first bind (Promise.race)
ReturnOnFirstBound ==
    /\ status = "waiting"
    /\ \E k \in 1..Len(emails) : tasks[emails[k]].pc \in {"bound", "skipped"}
    /\ status' = "returned"
    /\ UNCHANGED <<emails, mapSendPrefs, message, packages, tasks>>
    /\ UNCHANGED cacheVars

\* Promise.all(promises) fulfilled: attachSubPackages returns the packages
Return ==
    /\ status = "waiting"
    /\ \A k \in 1..Len(emails) : tasks[emails[k]].pc \in {"bound", "skipped"}
    /\ status' = "returned"
    /\ UNCHANGED <<emails, mapSendPrefs, message, packages, tasks>>
    /\ UNCHANGED cacheVars

\* Faulty variant of Reject: the first rejection cancels the pending tasks
RejectCancels ==
    /\ status = "waiting"
    /\ \E k \in 1..Len(emails) : tasks[emails[k]].pc = "failed"
    /\ status' = "failed"
    /\ tasks' = [i \in Emails |->
                   IF tasks[i].pc \in {"genkey", "crypto", "built"}
                   THEN [tasks[i] EXCEPT !.pc = "failed"] ELSE tasks[i]]
    /\ UNCHANGED <<emails, mapSendPrefs, message, packages>>
    /\ UNCHANGED cacheVars

\* Promise.all(promises) rejected: attachSubPackages rejects
Reject ==
    /\ status = "waiting"
    /\ \E k \in 1..Len(emails) : tasks[emails[k]].pc = "failed"
    /\ status' = "failed"
    /\ UNCHANGED <<emails, mapSendPrefs, message, packages, tasks>>
    /\ UNCHANGED cacheVars

Next ==
    \/ Dispatch
    \/ \E i \in Emails : KeyGenerated(i)
    \/ \E i \in Emails : KeyGenerationFails(i)
    \/ \E i \in Emails, o \in {"ok", "failed"} : EncryptSettles(i, o)
    \/ \E i \in Emails, o \in {"ok", "failed"} : SrpSettles(i, o)
    \/ \E i \in Emails : Bind(i)
    \/ Return
    \/ Reject

\* One package for each MIME type, neither Addresses nor Type set yet: the
\* first bind into a package sets both, the later ones find them set
EmptyPackages == {[t \in MIME_TYPES |-> NewPackage(FALSE)]}

Init == InitWith(ResolvedPreferences, RowPreferences, Messages, EmptyPackages)

\* Every recipient with the preferences of one row of the switch
RowInit == InitWith(RowPreferences, RowPreferences, Messages, EmptyPackages)

Spec == Init /\ [][Next]_vars

\* The interleavings of the recipients' steps, every recipient on a row of
\* the switch
RowSpec == RowInit /\ [][Next]_vars

\* Every list of at most MaxAttachments attachments, signed or not
SignatureLists == UNION {[1..n -> BOOLEAN] : n \in 0..MaxAttachments}

SignatureMessages ==
    [isEO : BOOLEAN, Attachments : SignatureLists,
     Password : {"password"}, PasswordHint : {"hint"}]

\* The rows next to the first recipient: PGP/Inline with and without encrypt
SignatureRows ==
    {p \in RowPreferences : p.pgpScheme = SEND_PGP_INLINE}

SignatureInit ==
    InitWith(ResolvedPreferences, SignatureRows, SignatureMessages, EmptyPackages)

\* attachSubPackages over messages with every combination of signed and
\* unsigned attachments
SignatureSpec == SignatureInit /\ [][Next]_vars

\* The caller's map with any of the MIME types left out: the keys of Packages
\* are optional, `packages[type] as Package` is then undefined
LazyPackages ==
    {[t \in MIME_TYPES |-> IF t \in S THEN NewPackage(FALSE) ELSE AbsentPackage] :
        S \in SUBSET MIME_TYPES}

LazyMessages == {m \in Messages : m.Attachments = <<>>}

LazyInit == InitWith(RowPreferences, RowPreferences, LazyMessages, LazyPackages)

LazySpec == LazyInit /\ [][Next]_vars

\* The scheduler runs every continuation that is ready, and the crypto and
\* network operations settle.
FairSpec ==
    /\ RowInit
    /\ [][Next]_vars
    /\ WF_vars(Dispatch) /\ WF_vars(Return) /\ WF_vars(Reject)
    /\ \A i \in Emails :
          /\ WF_vars(Bind(i))
          /\ WF_vars(KeyGenerated(i) \/ KeyGenerationFails(i))
          /\ WF_vars(\E o \in {"ok", "failed"} : EncryptSettles(i, o))
          /\ WF_vars(\E o \in {"ok", "failed"} : SrpSettles(i, o))

\* ===================================================== conversation cache
\* The fetched conversations and the message IDs of the events
MaxConversations == 1

MaxMessages == 2

\* The reloadConversation calls of one ID that await the api at a time
MaxPending == 1

ConversationIDs == 1..MaxConversations

\* The conversations a message can belong to: the fetched ones and one that
\* was never fetched
MessageConversationIDs == 1..(MaxConversations + 1)

MessageIDs == 1..MaxMessages

\* EVENT_ACTIONS, by name
DELETE == "DELETE"

CREATE == "CREATE"

UPDATE_DRAFT == "UPDATE_DRAFT"

UPDATE_FLAGS == "UPDATE_FLAGS"

EVENT_ACTIONS == {DELETE, CREATE, UPDATE_DRAFT, UPDATE_FLAGS}

\* A message: its ID, its conversation and one flag an update changes
CachedMessages ==
    [ID : MessageIDs, ConversationID : MessageConversationIDs, Unread : {0, 1}]

\* What getConversation(ID) answers: the conversation with its n messages
ServerResults(ID) ==
    {[Conversation |-> [ID |-> ID, NumMessages |-> n],
      Messages |-> [has |-> TRUE,
                    list |-> [k \in 1..n |->
                                [ID |-> k, ConversationID |-> ID, Unread |-> 0]]]] :
        n \in 0..MaxMessages}

\* A cached value: what the api answered, or a conversation without Messages
CachedResults(ID) ==
    ServerResults(ID) \cup
    {[Conversation |-> [ID |-> ID, NumMessages |-> 0],
      Messages |-> [has |-> FALSE, list |-> <<>>]]}

\* The entries of Event.Conversations the listener reads: { ID, Action,
\* Conversation }, Conversation by the NumMessages the updated conversation
\* gets. parses tells whether parseLabelIDsInEvent returns for this entry or
\* throws.
ConversationEvents ==
    [ID : ConversationIDs, Action : {DELETE, CREATE},
     NumMessages : {0}, parses : {TRUE}]
    \cup
    [ID : ConversationIDs, Action : {UPDATE_DRAFT, UPDATE_FLAGS},
     NumMessages : 0..MaxMessages, parses : {TRUE}]
    \cup
    [ID : ConversationIDs, Action : {UPDATE_FLAGS},
     NumMessages : {0}, parses : {FALSE}]

\* The entries of Event.Messages: { ID, Action, Message }, Message being the
\* message of that ID: a new message with its conversation, or the flags of
\* an updated one
MessageEvents ==
    {e \in [ID : MessageIDs, Action : EVENT_ACTIONS, Message : CachedMessages] :
        /\ e.Message.ID = e.ID
        /\ e.Action = DELETE =>
              e.Message.ConversationID = 1 /\ e.Message.Unread = 0
        /\ e.Action = CREATE => e.Message.Unread = 1
        /\ e.Action = UPDATE_DRAFT =>
              e.Message.ConversationID = 1 /\ e.Message.Unread = 0
        /\ e.Action = UPDATE_FLAGS => e.Message.ConversationID = 1}

\* An event: Conversations is no array, or one entry in each list at most
Events ==
    {[isArray |-> FALSE, Conversations |-> <<>>, Messages |-> <<>>]}
    \cup
    [isArray : {TRUE},
     Conversations : {<<>>} \cup {<<c>> : c \in ConversationEvents},
     Messages : {<<>>} \cup {<<m>> : m \in MessageEvents}]

\* updatedMessages.findIndex((currentMessage) => currentMessage.ID === ID),
\* 0 for -1
FindIndex(list, ID) ==
    IF \E k \in 1..Len(list) : list[k].ID = ID
    THEN CHOOSE k \in 1..Len(list) :
            list[k].ID = ID /\ \A j \in 1..(k - 1) : list[j].ID # ID
    ELSE 0

\* updatedMessages.splice(index, 1)
Splice(list, index) ==
    [k \in 1..(Len(list) - 1) |-> IF k < index THEN list[k] ELSE list[k + 1]]

\* One callback of Messages.forEach on updatedMessages
UpdatedByMessage(list, ev, conversationID) ==
    LET index == FindIndex(list, ev.ID) IN
    IF ev.Action = DELETE /\ index # 0 THEN Splice(list, index)
    ELSE IF ev.Action = CREATE /\ ev.Message.ConversationID = conversationID
         THEN Append(list, ev.Message)
    ELSE IF ev.Action \in {UPDATE_DRAFT, UPDATE_FLAGS} /\ index # 0
         THEN [list EXCEPT ![index].Unread = ev.Message.Unread]
    ELSE list

\* Messages?.forEach(...) on updatedMessages
RECURSIVE UpdatedMessages(_, _, _)
UpdatedMessages(list, messageEvents, conversationID) ==
    IF messageEvents = <<>> THEN list
    ELSE UpdatedMessages(UpdatedByMessage(list, Head(messageEvents), conversationID),
                         Tail(messageEvents), conversationID)

\* A function without the key id
Without(f, id) == [k \in DOMAIN f \ {id} |-> f[k]]

\* A function with f[id] = value
With(f, id, value) == [k \in DOMAIN f \cup {id} |-> IF k = id THEN value ELSE f[k]]

\* The body of the for loop for one entry of Conversations, on the listener's
\* state st = [cache, reloads, deletedIDs, mismatches]. updatedMessages is
\* currentValue.Messages itself when the cached value has Messages, so splice,
\* push and the assignment of an element change the cached value in place;
\* it is a new array only when the cached value has no Messages.
AfterConversationEvent(st, ev, messageEvents) ==
    IF ev.ID \notin DOMAIN st.cache THEN st
    ELSE IF ev.Action = DELETE
         THEN [st EXCEPT !.cache = Without(st.cache, ev.ID),
                         !.deletedIDs = @ \cup {ev.ID}]
    ELSE IF ev.Action \in {UPDATE_DRAFT, UPDATE_FLAGS}
         THEN LET currentValue == st.cache[ev.ID]
                  started == [st.reloads EXCEPT ![ev.ID] = @ + 1]
              IN
              IF ~ev.parses
              THEN [st EXCEPT !.reloads = started]
              ELSE
              LET updatedConversation ==
                      [currentValue.Conversation EXCEPT !.NumMessages = ev.NumMessages]
                  updatedMessages ==
                      UpdatedMessages(IF currentValue.Messages.has
                                      THEN currentValue.Messages.list ELSE <<>>,
                                      messageEvents, currentValue.Conversation.ID)
                  inPlace ==
                      IF currentValue.Messages.has
                      THEN [currentValue EXCEPT !.Messages.list = updatedMessages]
                      ELSE currentValue
              IN
              IF updatedConversation.NumMessages # Len(updatedMessages)
              THEN [st EXCEPT !.cache = With(st.cache, ev.ID, inPlace),
                              !.reloads = started,
                              !.mismatches = @ \cup
                                  {[ID |-> ev.ID, before |-> currentValue,
                                    after |-> inPlace]}]
              ELSE [st EXCEPT !.cache =
                        With(st.cache, ev.ID,
                             [Conversation |-> updatedConversation,
                              Messages |-> [has |-> TRUE, list |-> updatedMessages]])]
    ELSE st

\* for (const { ID, Action, Conversation } of Conversations)
RECURSIVE AfterConversationEvents(_, _, _)
AfterConversationEvents(st, conversationEvents, messageEvents) ==
    IF conversationEvents = <<>> THEN st
    ELSE AfterConversationEvents(
             AfterConversationEvent(st, Head(conversationEvents), messageEvents),
             Tail(conversationEvents), messageEvents)

\* The listener on one event
AfterEvent(event) ==
    LET st == [cache |-> cache, reloads |-> reloads,
               deletedIDs |-> deletedIDs, mismatches |-> {}]
    IN IF ~event.isArray THEN st
       ELSE AfterConversationEvents(st, event.Conversations, event.Messages)

\* The part of attachSubPackages in a state of the listener: not called
SendIdle ==
    /\ emails = <<>>
    /\ mapSendPrefs = <<>>
    /\ message = [isEO |-> FALSE, Attachments |-> <<>>,
                  Password |-> "password", PasswordHint |-> "hint"]
    /\ packages \in EmptyPackages
    /\ tasks = [i \in Emails |-> IdleTask]
    /\ status = "init"

\* The cache when the listener is subscribed: some conversations fetched
CacheInit ==
    /\ SendIdle
    /\ \E D \in SUBSET ConversationIDs :
          cache \in {f \in [D -> UNION {CachedResults(id) : id \in D}] :
                       \A id \in D : f[id] \in CachedResults(id)}
    /\ reloads = [id \in ConversationIDs |-> 0]
    /\ deletedIDs = {}
    /\ mismatches = {}

\* The event manager calls the listener with an event; the listener runs to
\* its end. Events that would make a list longer than MaxMessages or start
\* more than MaxPending reloads of one ID are left out.
Listener ==
    \E event \in Events :
        \E st \in {AfterEvent(event)} :
        /\ \A id \in DOMAIN st.cache : Len(st.cache[id].Messages.list) <= MaxMessages
        /\ \A id \in ConversationIDs : st.reloads[id] <= MaxPending
        /\ cache' = st.cache
        /\ reloads' = st.reloads
        /\ deletedIDs' = st.deletedIDs
        /\ mismatches' = st.mismatches
        /\ UNCHANGED <<emails, mapSendPrefs, message, packages, tasks, status>>

\* reloadConversation after `await api(getConversation(ID))`: the result is
\* stored under ID
ReloadResolves(ID) ==
    /\ reloads[ID] > 0
    /\ \E result \in ServerResults(ID) : cache' = With(cache, ID, result)
    /\ reloads' = [reloads EXCEPT ![ID] = @ - 1]
    /\ mismatches' = {}
    /\ UNCHANGED deletedIDs
    /\ UNCHANGED <<emails, mapSendPrefs, message, packages, tasks, status>>

\* The api call of reloadConversation rejects: nothing is stored
ReloadRejects(ID) ==
    /\ reloads[ID] > 0
    /\ reloads' = [reloads EXCEPT ![ID] = @ - 1]
    /\ mismatches' = {}
    /\ UNCHANGED <<cache, deletedIDs>>
    /\ UNCHANGED <<emails, mapSendPrefs, message, packages, tasks, status>>

\* useConversationExpirationCheck: cache.delete(element.ID) of an expired
\* conversation
Expire(ID) ==
    /\ ID \in DOMAIN cache
    /\ cache' = Without(cache, ID)
    /\ mismatches' = {}
    /\ UNCHANGED <<reloads, deletedIDs>>
    /\ UNCHANGED <<emails, mapSendPrefs, message, packages, tasks, status>>

CacheNext ==
    \/ Listener
    \/ \E ID \in ConversationIDs : ReloadResolves(ID)
    \/ \E ID \in ConversationIDs : ReloadRejects(ID)
    \/ \E ID \in ConversationIDs : Expire(ID)

CacheSpec == CacheInit /\ [][CacheNext]_vars

\* ============================================================== properties
Recipients == {emails[k] : k \in 1..Len(emails)}

\* Addresses of the package of a MIME type, {} while unset
AddressesOf(t) == IF packages[t].hasAddresses THEN packages[t].Addresses ELSE <<>>

\* Type of the package of a MIME type, an unset Type counting as no bit
MaskOf(t) == IF packages[t].hasType THEN packages[t].Type ELSE 0

InPackage(e, t) == e \in DOMAIN AddressesOf(t)

PackagesHolding(e) == {t \in MIME_TYPES : InPackage(e, t)}

Completed == status \in {"returned", "failed"}

Pending(i) == tasks[i].pc \in {"genkey", "crypto", "built"}

FlagBits == {SEND_PM, SEND_EO, SEND_CLEAR, SEND_PGP_INLINE, SEND_PGP_MIME, SEND_MIME}

HasBit(n, b) == (n \div b) % 2 = 1

\* The mask of t has exactly the bits of the sub-packages stored in t
MaskMatchesAddresses(t) ==
    /\ MaskOf(t) < 2 * SEND_MIME
    /\ \A b \in FlagBits :
          HasBit(MaskOf(t), b) <=>
              \E e \in DOMAIN AddressesOf(t) : HasBit(AddressesOf(t)[e].Type, b)

\* ---- C1: once attachSubPackages has completed, the Type mask of every
\* top-level package is the bitwise OR of the Type of exactly the sub-packages
\* stored in its Addresses, whatever the recipients and the order of the binds.
C1_MaskIsOrOfBound ==
    Completed => \A t \in MIME_TYPES : MaskMatchesAddresses(t)

C1_Witness ==
    /\ status = "returned"
    /\ \E t \in MIME_TYPES : \E e1, e2 \in DOMAIN AddressesOf(t) :
          AddressesOf(t)[e1].Type # AddressesOf(t)[e2].Type

\* ---- C2: in every reachable state no recipient email is a key of Addresses
\* in more than one top-level package.
C2_EmailInAtMostOnePackage ==
    \A e \in Emails : Cardinality(PackagesHolding(e)) <= 1

C2_Witness ==
    \E e1, e2 \in Recipients :
        /\ PackagesHolding(e1) # {} /\ PackagesHolding(e2) # {}
        /\ PackagesHolding(e1) # PackagesHolding(e2)

\* The rendering format of the dispatch table of the design, row by row
TableFormat(prefs, isEO) ==
    LET byMimeType == IF prefs.mimeType = DEFAULT THEN DEFAULT ELSE PLAINTEXT IN
    IF prefs.pgpScheme = SEND_PGP_MIME
    THEN (IF ~prefs.sign /\ ~prefs.encrypt THEN DEFAULT ELSE MIME)
    ELSE IF prefs.pgpScheme = SEND_PGP_INLINE THEN PLAINTEXT
    ELSE byMimeType

\* ---- C3: when attachSubPackages returns the packages, every email of the
\* recipient list is a key of Addresses in exactly one top-level package, the
\* one of the format the dispatch table gives for its preferences.
C3_ReturnedBoundInTablePackage ==
    status = "returned" =>
        \A e \in Recipients :
            /\ e \in DOMAIN mapSendPrefs
            /\ PackagesHolding(e) = {TableFormat(mapSendPrefs[e], message.isEO)}

C3_Witness ==
    /\ status = "returned"
    /\ \E e1, e2 \in Recipients :
          /\ mapSendPrefs[e1].pgpScheme = SEND_PGP_MIME /\ InPackage(e1, DEFAULT)
          /\ mapSendPrefs[e1].mimeType = PLAINTEXT
          /\ InPackage(e2, PLAINTEXT)

\* The sub-package the builder of a recipient produces, from the inputs alone
FragmentOf(e) ==
    LET prefs == mapSendPrefs[e]
        r == Route(prefs, message)
    IN IF r.builder = "sendPMEncryptedOutside"
       THEN sendPMEncryptedOutside(message, e)
       ELSE Built(r.builder, prefs, message)

\* Every task that was started has run to its end
Quiescent == status # "init" /\ \A i \in Emails : ~Pending(i)

\* ---- C4: the final contents of the top-level packages do not depend on the
\* order in which the sub-packages complete and are bound: when every task has
\* run to its end, the Addresses of each package hold, for exactly the
\* recipients of that format whose builder succeeded, the sub-package their
\* preferences determine, and the mask is the OR of their Types.
C4_FinalContentsIndependentOfOrder ==
    Quiescent =>
        \A t \in MIME_TYPES :
            /\ DOMAIN AddressesOf(t) =
                  {e \in Recipients : tasks[e].pc = "bound" /\ tasks[e].type = t}
            /\ \A e \in DOMAIN AddressesOf(t) :
                  /\ AddressesOf(t)[e] = FragmentOf(e)
                  /\ t = TableFormat(mapSendPrefs[e], message.isEO)
            /\ MaskMatchesAddresses(t)

C4_Witness ==
    /\ Quiescent
    /\ status = "returned"
    /\ \E t \in MIME_TYPES : \E e1, e2 \in DOMAIN AddressesOf(t) :
          /\ e1 < e2
          /\ AddressesOf(t)[e1].Type = SEND_EO
          /\ AddressesOf(t)[e2].Type = SEND_PM

\* ---- C5 as stated: attachSubPackages completes, by returning or by
\* reporting a failure, only after every operation it dispatched has settled.
C5_CompletesOnlyWhenAllSettled ==
    Completed => \A i \in Emails : ~Pending(i)

\* ---- C5 as amended: attachSubPackages returns the packages only after every
\* recipient task it dispatched has been bound, and from then on no task and no
\* package changes. (A failure is reported at the first rejection, while other
\* binds may still be pending.)
C5_ReturnsOnlyWhenAllBound ==
    [][/\ status' = "returned" => \A e \in Recipients : tasks'[e].pc = "bound"
       /\ status = "returned" => packages' = packages /\ tasks' = tasks]_vars

C5_Witness ==
    /\ status = "returned"
    /\ Len(emails) = MaxRecipients
    /\ \E e \in Recipients : tasks[e].enc = "ok" /\ tasks[e].srp = "ok"

\* A recipient of the password builder for which key generation, the token
\* encryption or the proof exchange failed
PasswordBuilderFailed(i) ==
    \/ tasks[i].key = "failed"
    \/ tasks[i].enc = "failed"
    \/ tasks[i].srp = "failed"

\* ---- C6: when key generation, token encryption or the proof exchange fails
\* for a recipient of the password builder, no sub-package of any kind is
\* bound for that recipient, attachSubPackages never returns the packages, and
\* while it has not completed its rejection is due.
C6_PasswordFailureBindsNothing ==
    \A i \in Emails :
        PasswordBuilderFailed(i) =>
            /\ PackagesHolding(i) = {}
            /\ tasks[i].pc = "failed"
            /\ status # "returned"
            /\ status = "waiting" => ENABLED Reject

C6_Witness ==
    \E i, j \in Recipients :
        /\ tasks[i].srp = "failed" /\ tasks[i].enc = "ok"
        /\ status = "failed"
        /\ PackagesHolding(j) # {}

\* ---- C7: a sub-package bound under an email is never removed or replaced
\* and no bit of a package's Type mask is ever cleared, in any step, the
\* failure of another recipient's password builder included.
C7_BoundNeverRemoved ==
    [][\A t \in MIME_TYPES :
          /\ \A e \in DOMAIN AddressesOf(t) :
                /\ e \in DOMAIN AddressesOf(t)'
                /\ AddressesOf(t)'[e] = AddressesOf(t)[e]
          /\ BitAnd(MaskOf(t)', MaskOf(t)) = MaskOf(t)]_vars

C7_Witness ==
    \E i, j \in Recipients :
        /\ tasks[i].key = "failed"
        /\ status = "waiting"
        /\ PackagesHolding(j) # {}

\* ---- C8: when one recipient's builder has failed, every other dispatched
\* recipient whose own builder succeeds is still bound into its target package
\* in the end: from some point on every recipient is either bound there, or
\* was never dispatched, or is one whose own password builder failed.
C8_OthersStillBound ==
    <>[](\A i \in Emails :
            \/ tasks[i].pc = "bound" /\ InPackage(i, tasks[i].type)
            \/ tasks[i].pc = "idle"
            \/ tasks[i].pc = "failed" /\ PasswordBuilderFailed(i))

C8_Witness ==
    \E i, j \in Recipients :
        /\ PasswordBuilderFailed(j)
        /\ status = "failed"
        /\ tasks[i].pc = "built"

\* ---- C9: when an email of the list has no entry in the preferences map,
\* attachSubPackages fails in its first step, without a task for that email,
\* and no sub-package is ever bound for that email.
C9_UnresolvedFailsFast ==
    \A e \in Recipients :
        e \notin DOMAIN mapSendPrefs =>
            /\ status \in {"init", "failed"}
            /\ tasks[e].pc = "idle"
            /\ PackagesHolding(e) = {}

C9_Witness ==
    \E e, f \in Recipients :
        /\ e \notin DOMAIN mapSendPrefs
        /\ status = "failed"
        /\ PackagesHolding(f) # {}

\* ---- C10: a recipient whose pgpScheme is SEND_PM gets a sub-package of Type
\* SEND_PM, bound into the text/html package when its mimeType is text/html and
\* into the text/plain package otherwise, and in no other; its task never
\* fails and it is bound when attachSubPackages returns.
C10_NativeBoundByMimeType ==
    \A e \in Recipients \cap DOMAIN mapSendPrefs :
        mapSendPrefs[e].pgpScheme = SEND_PM =>
            LET target == IF mapSendPrefs[e].mimeType = DEFAULT
                          THEN DEFAULT ELSE PLAINTEXT
            IN /\ PackagesHolding(e) \subseteq {target}
               /\ InPackage(e, target) => AddressesOf(target)[e].Type = SEND_PM
               /\ tasks[e].pc \in {"idle", "built", "bound"}
               /\ tasks[e].pc = "bound" => InPackage(e, target)
               /\ status = "returned" => InPackage(e, target)

C10_Witness ==
    \E e, f \in Recipients :
        /\ e # f
        /\ e \in DOMAIN mapSendPrefs
        /\ mapSendPrefs[e].pgpScheme = SEND_PM
        /\ mapSendPrefs[e].mimeType = PLAINTEXT
        /\ InPackage(e, PLAINTEXT)
        /\ tasks[f].pc = "failed"

\* The recipients with preferences whose task has been started
Started == {e \in Recipients \cap DOMAIN mapSendPrefs : tasks[e].pc # "idle"}

\* The sub-package stored for e in the package of t
Stored(e, t) == AddressesOf(t)[e]

\* ---- C11: a recipient whose pgpScheme is SEND_PGP_MIME gets the clear
\* package, bound into text/html whatever its mimeType, exactly when sign and
\* encrypt are both false; otherwise the PGP/MIME package, bound into
\* multipart/mixed, of Type SEND_PGP_MIME without Signature when encrypt is
\* true, and of Type SEND_MIME with Signature = +sign when encrypt is false.
C11_PgpMimeRouting ==
    \A e \in Started :
        LET prefs == mapSendPrefs[e]
            t == tasks[e]
        IN prefs.pgpScheme = SEND_PGP_MIME =>
             /\ t.pc \in {"built", "bound"}
             /\ (t.type = DEFAULT) <=> (~prefs.sign /\ ~prefs.encrypt)
             /\ (t.type = MIME) <=> (prefs.sign \/ prefs.encrypt)
             /\ t.type = DEFAULT =>
                   t.pack.Type = SEND_CLEAR /\ t.pack.Signature = "0"
             /\ (t.type = MIME /\ prefs.encrypt) =>
                   t.pack.Type = SEND_PGP_MIME /\ t.pack.Signature = "undefined"
             /\ (t.type = MIME /\ ~prefs.encrypt) =>
                   /\ t.pack.Type = SEND_MIME
                   /\ t.pack.Signature = (IF prefs.sign THEN "1" ELSE "0")
             /\ t.pc = "bound" =>
                   PackagesHolding(e) = {t.type} /\ Stored(e, t.type) = t.pack

C11_Witness ==
    \E e, f \in Started :
        /\ mapSendPrefs[e].pgpScheme = SEND_PGP_MIME
        /\ mapSendPrefs[e].mimeType = PLAINTEXT
        /\ ~mapSendPrefs[e].sign /\ ~mapSendPrefs[e].encrypt
        /\ InPackage(e, DEFAULT)
        /\ mapSendPrefs[f].pgpScheme = SEND_PGP_MIME
        /\ mapSendPrefs[f].encrypt
        /\ InPackage(f, MIME)

\* A recipient of the sign-only PGP/MIME branch
SignOnlyMime(e) ==
    /\ mapSendPrefs[e].pgpScheme = SEND_PGP_MIME
    /\ ~mapSendPrefs[e].encrypt
    /\ mapSendPrefs[e].sign

\* ---- C12 as stated: a SEND_PGP_MIME recipient with encrypt = false and
\* sign = true gets a SEND_MIME package with Signature 1, bound into the
\* text/html package and not into the multipart/mixed package.
C12_SignOnlyBoundIntoHtml ==
    \A e \in Started :
        (SignOnlyMime(e) /\ tasks[e].pc = "bound") =>
            /\ InPackage(e, DEFAULT)
            /\ ~InPackage(e, MIME)
            /\ Stored(e, DEFAULT).Type = SEND_MIME
            /\ Stored(e, DEFAULT).Signature = "1"

\* ---- C12 as amended: that recipient gets a SEND_MIME package with
\* Signature 1, bound into the multipart/mixed package and not into the
\* text/html package.
C12_SignOnlyBoundIntoMime ==
    \A e \in Started :
        (SignOnlyMime(e) /\ tasks[e].pc = "bound") =>
            /\ InPackage(e, MIME)
            /\ ~InPackage(e, DEFAULT)
            /\ ~InPackage(e, PLAINTEXT)
            /\ Stored(e, MIME).Type = SEND_MIME
            /\ Stored(e, MIME).Signature = "1"

C12_Witness ==
    \E e \in Started :
        /\ SignOnlyMime(e)
        /\ mapSendPrefs[e].mimeType = DEFAULT
        /\ tasks[e].pc = "bound"
        /\ status = "returned"

\* No attachment of the message lacks a Signature
NoUnsignedAttachment ==
    ~ \E k \in DOMAIN message.Attachments : ~message.Attachments[k]

\* ---- C13: a recipient whose pgpScheme is SEND_PGP_INLINE is bound into the
\* text/plain package whatever its mimeType; its package has Type
\* SEND_PGP_INLINE and Signature = (every attachment is signed) when encrypt is
\* true, and Type SEND_CLEAR and Signature = +sign when encrypt is false.
C13_PgpInlineRouting ==
    \A e \in Started :
        LET prefs == mapSendPrefs[e]
            t == tasks[e]
        IN prefs.pgpScheme = SEND_PGP_INLINE =>
             /\ t.pc \in {"built", "bound"}
             /\ t.type = PLAINTEXT
             /\ prefs.encrypt =>
                   /\ t.pack.Type = SEND_PGP_INLINE
                   /\ t.pack.Signature =
                         (IF NoUnsignedAttachment THEN "true" ELSE "false")
             /\ ~prefs.encrypt =>
                   /\ t.pack.Type = SEND_CLEAR
                   /\ t.pack.Signature = (IF prefs.sign THEN "1" ELSE "0")
             /\ t.pc = "bound" =>
                   PackagesHolding(e) = {PLAINTEXT} /\ Stored(e, PLAINTEXT) = t.pack

C13_Witness ==
    \E e, f \in Started :
        /\ mapSendPrefs[e].pgpScheme = SEND_PGP_INLINE
        /\ mapSendPrefs[e].mimeType = DEFAULT
        /\ mapSendPrefs[e].encrypt
        /\ InPackage(e, PLAINTEXT)
        /\ Stored(e, PLAINTEXT).Signature = "true"
        /\ Len(message.Attachments) = MaxAttachments
        /\ mapSendPrefs[f].pgpScheme = SEND_PGP_INLINE
        /\ ~mapSendPrefs[f].encrypt
        /\ InPackage(f, PLAINTEXT)

\* ---- C14: for a message eligible for encryption for outside, every
\* recipient whose pgpScheme is SEND_EO or SEND_CLEAR goes to the password
\* builder and, if bound, carries Type SEND_EO, never SEND_CLEAR; for a message
\* that is not eligible, every such recipient is bound the clear package with
\* Signature 0. In both cases the package is text/html when mimeType is
\* text/html and text/plain otherwise.
C14_PasswordOrClearRouting ==
    \A e \in Started :
        LET prefs == mapSendPrefs[e]
            t == tasks[e]
            target == IF prefs.mimeType = DEFAULT THEN DEFAULT ELSE PLAINTEXT
        IN prefs.pgpScheme \in {SEND_EO, SEND_CLEAR} =>
             /\ t.type = target
             /\ PackagesHolding(e) \subseteq {target}
             /\ message.isEO =>
                   /\ t.key # "none"
                   /\ t.pack.Type \in {0, SEND_EO}
                   /\ t.pc = "bound" =>
                         InPackage(e, target) /\ Stored(e, target).Type = SEND_EO
             /\ ~message.isEO =>
                   /\ t.key = "none"
                   /\ t.pc \in {"built", "bound"}
                   /\ t.pack.Type = SEND_CLEAR /\ t.pack.Signature = "0"
                   /\ t.pc = "bound" =>
                         InPackage(e, target) /\ Stored(e, target) = t.pack
                   /\ status = "returned" => t.pc = "bound"

C14_Witness ==
    \E e, f \in Started :
        /\ message.isEO
        /\ mapSendPrefs[e].pgpScheme = SEND_CLEAR
        /\ mapSendPrefs[e].mimeType = PLAINTEXT
        /\ InPackage(e, PLAINTEXT)
        /\ Stored(e, PLAINTEXT).Type = SEND_EO
        /\ mapSendPrefs[f].pgpScheme = SEND_EO
        /\ InPackage(f, DEFAULT)

\* ---- C15: in the package of the native builder and of the PGP/Inline
\* builder with encrypt, Signature is true exactly when no attachment of the
\* message lacks a signature, so also when there is no attachment.
C15_SignatureIffEveryAttachmentSigned ==
    \A e \in Started :
        LET prefs == mapSendPrefs[e]
            t == tasks[e]
        IN (\/ prefs.pgpScheme = SEND_PM
            \/ prefs.pgpScheme = SEND_PGP_INLINE /\ prefs.encrypt) =>
             /\ t.pack.Signature \in {"true", "false"}
             /\ (t.pack.Signature = "true") <=> NoUnsignedAttachment
             /\ t.pc = "bound" => Stored(e, t.type).Signature = t.pack.Signature

C15_Witness ==
    \E e, f \in Started :
        /\ mapSendPrefs[e].pgpScheme = SEND_PM
        /\ mapSendPrefs[f].pgpScheme = SEND_PGP_INLINE
        /\ mapSendPrefs[f].encrypt
        /\ tasks[e].pc = "bound" /\ tasks[f].pc = "bound"
        /\ Stored(e, tasks[e].type).Signature = "false"
        /\ Stored(f, tasks[f].type).Signature = "false"
        /\ message.Attachments = <<TRUE, FALSE>>

\* ---- C16: when a recipient's package resolves for a MIME type that has no
\* top-level package in the map, the bind creates the package and stores the
\* recipient's package in it with the mask updated, instead of failing: a
\* recipient whose builder produced a package and whose bind has run is
\* stored in the package of its type.
C16_BindCreatesMissingPackage ==
    \A e \in Started :
        LET t == tasks[e] IN
        t.pack # NoPack /\ t.pc # "built" =>
            /\ t.pc = "bound"
            /\ InPackage(e, t.type)
            /\ HasBit(MaskOf(t.type), t.pack.Type)

\* ---- C17: in every reachable state, also between two recipients' steps,
\* every sub-package stored in a package has its Type bit in that package's
\* mask, every bit of the mask is the Type of a stored sub-package, and every
\* recipient whose bind has run is still stored with the package it built.
C17_BindAtomic ==
    /\ \A t \in MIME_TYPES :
          /\ \A e \in DOMAIN AddressesOf(t) :
                BitAnd(MaskOf(t), Stored(e, t).Type) = Stored(e, t).Type
          /\ \A b \in FlagBits :
                HasBit(MaskOf(t), b) =>
                    \E e \in DOMAIN AddressesOf(t) : Stored(e, t).Type = b
    /\ \A i \in Emails :
          tasks[i].pc = "bound" =>
              InPackage(i, tasks[i].type) /\ Stored(i, tasks[i].type) = tasks[i].pack

C17_Witness ==
    \E i, j \in Recipients :
        /\ status = "waiting"
        /\ tasks[i].pc = "bound"
        /\ tasks[i].key = "ok"
        /\ tasks[j].pc = "built"
        /\ tasks[j].type = tasks[i].type
        /\ tasks[j].pack.Type # tasks[i].pack.Type

\* ---- C18: in the password builder the token encryption and the password
\* proof are started together and only once the session key has been
\* generated; while one is pending the other can settle; neither is started
\* when the key generation fails; the package with Auth, Token and EncToken
\* exists only when both have succeeded.
C18_PasswordBuilderOrder ==
    \A i \in Emails :
        LET t == tasks[i] IN
        /\ (t.enc = "none") <=> (t.srp = "none")
        /\ t.enc # "none" => t.key = "ok"
        /\ t.key = "ok" => t.enc # "none" /\ t.srp # "none"
        /\ t.key \in {"pending", "failed"} => t.pack = NoPack
        /\ t.pc = "crypto" /\ t.enc = "pending" =>
              ENABLED EncryptSettles(i, "ok") /\ ENABLED EncryptSettles(i, "failed")
        /\ t.pc = "crypto" /\ t.srp = "pending" =>
              ENABLED SrpSettles(i, "ok") /\ ENABLED SrpSettles(i, "failed")
        /\ t.key # "none" =>
              ((t.pack # NoPack) <=> (t.enc = "ok" /\ t.srp = "ok"))
        /\ t.pack.Type = SEND_EO =>
              /\ t.enc = "ok" /\ t.srp = "ok"
              /\ t.pack.Auth # <<>> /\ t.pack.Token # <<>> /\ t.pack.EncToken # <<>>

C18_Witness ==
    \E i, j \in Recipients :
        /\ tasks[i].key = "ok"
        /\ tasks[i].enc = "pending"
        /\ tasks[i].srp = "ok"
        /\ tasks[j].key = "failed"
        /\ tasks[j].enc = "none" /\ tasks[j].srp = "none"

C20_OnlyBindChangesPackages ==
    [][/\ (\E i \in Emails :
              tasks[i].pc \in {"idle", "genkey", "crypto"} /\ tasks'[i] # tasks[i])
          => packages' = packages
       /\ packages' # packages =>
            \E i \in Emails :
               LET f == tasks[i].type IN
               /\ tasks[i].pc = "built" /\ tasks'[i].pc = "bound"
               /\ \A t \in MIME_TYPES \ {f} : packages'[t] = packages[t]
               /\ packages'[f].present = packages[f].present
               /\ DOMAIN packages'[f].Addresses = DOMAIN packages[f].Addresses \cup {i}
               /\ packages'[f].Addresses[i] = tasks[i].pack
               /\ \A e \in DOMAIN packages[f].Addresses \ {i} :
                     packages'[f].Addresses[e] = packages[f].Addresses[e]
      ]_vars

C20_Witness ==
    \E i, j \in Recipients :
        /\ InPackage(i, DEFAULT)
        /\ tasks[j].pc = "failed" /\ tasks[j].srp = "failed"
        /\ tasks[j].type = DEFAULT
        /\ DOMAIN AddressesOf(DEFAULT) = {i}
        /\ packages[PLAINTEXT] = NewPackage(FALSE)
        /\ packages[MIME] = NewPackage(FALSE)

\* ---- C21: once a DELETE event has removed a conversation ID from the
\* cache, no later step of the listener puts that ID back: a reload started
\* by an earlier update event and resolving after the delete stores nothing.
C21_DeletedStaysDeleted ==
    \A id \in deletedIDs : id \notin DOMAIN cache

\* ---- C22: when an update event gives a message list whose length differs
\* from NumMessages of the updated conversation, the cached value of that ID,
\* its Messages list included, is after the event what it was before it.
C22_MismatchLeavesCachedValue ==
    \A m \in mismatches :
        /\ m.after = m.before
        /\ m.ID \in DOMAIN cache => cache[m.ID] = m.before

====
